---- MODULE Spec2Model ----
(***************************************************************************)
(* Model of the AquaWatch frontend: the NWIS bounding-box tiling client    *)
(* (src/src/api/usgs.ts), the Predict Anomaly handler of the map view      *)
(* (src/src/components/MapView.tsx, src/src/api/anomaly.ts), the shared    *)
(* http client's session interceptor (src/src/api/http.ts), and the map    *)
(* view's site loading, Train Models button and Alerts tab together with   *)
(* the chart tooltip (src/src/components/Sparkline.tsx).                   *)
(*                                                                         *)
(* Coordinates are exact fixed-point numbers: an integer counts units of   *)
(* 1/(FormatSteps*SubSteps) degree, so that inputs carry more precision    *)
(* than the seven decimals formatCoord keeps.                              *)
(***************************************************************************)
EXTENDS Integers, Sequences, FiniteSets, TLC

VARIABLES
    fetchPc,      \* fetchSitesByBBox: "idle" | "waiting" | "resolved" | "rejected"
    bbox,         \* its arguments <<minLongitude, minLatitude, maxLongitude, maxLatitude>>
    queries,      \* the bBox of every sub-query issued, in issue order
    tileResp,     \* per sub-query: the HTTP outcome, "pending" until it settles
    fetchResult,  \* the resolved UsgsSite[] (site records, in Map insertion order)
    now,               \* Date.now(), in ms
    sites,             \* MapView state: site numbers of the loaded sites, in order
    anomalyStatus,     \* MapView state: "idle" | "loading" | "success" | "error"
    anomalyMessage,    \* MapView state: the inline message under the buttons
    siteCooldownUntil, \* MapView state: siteCooldownUntil[BULK_KEY]; 0 when unset
    anomalyBySite,     \* MapView state: result map, as its keys and its true keys
    handlers,          \* the Predict Anomaly click handlers that sent a request
    sent,              \* every request handed to the http client, in order
    storage,           \* localStorage item 'aquawatch_session'
    outgoing,          \* the last request as it left the http client's interceptor
    needsZoom,         \* MapView state: the viewport is too wide to load sites
    loading,           \* MapView state: a site load is under way
    lastFetchKey,      \* MapView ref: key of the viewport last fetched
    lastBounds,        \* the viewport of the latest loadSites call
    loads,             \* the loadSites calls that started a fetch, in call order
    trainingStatus,    \* MapView state: "idle" | "loading" | "success" | "error"
    trainingMessage,   \* MapView state: the inline message under Train Models
    trainHandlers,     \* the Train Models click handlers that sent a request
    recentAlerts,         \* MapView state: the alerts last loaded, as their ids
    recentAlertsLoading,  \* MapView state: an alerts load is under way
    recentAlertsError,    \* MapView state: the error of the last alerts load, "" if none
    alertsModalOpen,      \* MapView state: the "All alerts" dialog is open
    alertsPage,           \* MapView state: the dialog's page, from 1
    alertLoads,           \* getRecentAlerts calls in flight
    points,            \* Sparkline prop: the real series
    predictedPoints,   \* Sparkline prop: the predicted series
    showActual,        \* Sparkline prop: the real series is toggled on
    showPredicted,     \* Sparkline prop: the predicted series is toggled on
    cursorX,           \* Sparkline state: the clamped cursor position, or null
    mouseX             \* the position of the last mouse event, in drawing units

fetchVars == <<fetchPc, bbox, queries, tileResp, fetchResult>>
anomalyVars == <<sites, anomalyStatus, anomalyMessage, siteCooldownUntil,
                 anomalyBySite, handlers, sent>>

httpVars == <<storage, outgoing>>
loadVars == <<needsZoom, loading, lastFetchKey, lastBounds, loads>>
trainVars == <<trainingStatus, trainingMessage, trainHandlers>>
alertVars == <<recentAlerts, recentAlertsLoading, recentAlertsError, alertsModalOpen,
               alertsPage, alertLoads>>
chartVars == <<points, predictedPoints, showActual, showPredicted, cursorX, mouseX>>
sideVars == <<alertVars, chartVars>>
restVars == <<loadVars, trainVars, sideVars>>

vars == <<fetchPc, bbox, queries, tileResp, fetchResult, now, sites, anomalyStatus,
          anomalyMessage, siteCooldownUntil, anomalyBySite, handlers, sent,
          storage, outgoing, needsZoom, loading, lastFetchKey, lastBounds, loads,
          trainingStatus, trainingMessage, trainHandlers, recentAlerts,
          recentAlertsLoading, recentAlertsError, alertsModalOpen, alertsPage, alertLoads,
          points, predictedPoints, showActual, showPredicted, cursorX, mouseX>>

-----------------------------------------------------------------------------
(* Bounds and program constants *)

\* toFixed(7): digits kept by formatCoord
FracDigits == 7
\* input resolution below one formatted step (units per 0.0000001 degree)
SubSteps == 4
\* whole degrees spanned by the enumerated coordinates: -1 .. MaxDeg+1
MaxDeg == 0
\* largest number of sub-queries of an enumerated call
MaxTiles == 4

FormatSteps == 10 ^ FracDigits
Deg == FormatSteps * SubSteps

Min(a, b) == IF a <= b THEN a ELSE b
Max(a, b) == IF a >= b THEN a ELSE b
Abs(a) == IF a < 0 THEN -a ELSE a

\* Math.floor / Math.ceil of a coordinate, in whole degrees
MathFloor(v) == v \div Deg
MathCeil(v) == -((-v) \div Deg)

\* formatCoord: value.toFixed(7); the decimal string is represented by the
\* integer number of 0.0000001-degree steps it denotes (ties away from zero).
formatCoord(v) ==
    LET n == (2 * Abs(v) + SubSteps) \div (2 * SubSteps)
    IN  IF v < 0 THEN -n ELSE n

\* The value a formatted coordinate denotes, back in model units
Denote(n) == n * SubSteps

-----------------------------------------------------------------------------
(* fetchSitesByBBox: normalisation and tiling (usgs.ts 63-94) *)

West(b) == Min(b[1], b[3])
East(b) == Max(b[1], b[3])
South(b) == Min(b[2], b[4])
North(b) == Max(b[2], b[4])

\* for (let x = Math.floor(lo); x < Math.ceil(hi); x += 1) steps.push(x)
Steps(lo, hi) ==
    LET first == MathFloor(lo)
        n == MathCeil(hi) - first
    IN  [i \in 1..(IF n > 0 THEN n ELSE 0) |-> first + i - 1]

\* the exact tile of grid cell (x, y), in model units
TileOfUnclamped(b, x, y) ==
    [ tileWest  |-> x * Deg,
      tileEast  |-> (x + 1) * Deg,
      tileSouth |-> y * Deg,
      tileNorth |-> (y + 1) * Deg ]
TileOf(b, x, y) ==
    [ tileWest  |-> Max(West(b), x * Deg),
      tileEast  |-> Min(East(b), (x + 1) * Deg),
      tileSouth |-> Max(South(b), y * Deg),
      tileNorth |-> Min(North(b), (y + 1) * Deg) ]

\* if (tileEast <= tileWest || tileNorth <= tileSouth) continue
TileKept(t) == ~(t.tileEast <= t.tileWest \/ t.tileNorth <= t.tileSouth)

\* every grid cell in loop order: for x of lonSteps, for y of latSteps
GridTiles(b) ==
    LET lonSteps == Steps(West(b), East(b))
        latSteps == Steps(South(b), North(b))
        nx == Len(lonSteps)
        ny == Len(latSteps)
    IN  [k \in 1..(nx * ny) |->
            TileOf(b, lonSteps[((k - 1) \div ny) + 1], latSteps[((k - 1) % ny) + 1])]

\* params.set('bBox', `${formatCoord(tileWest)},${formatCoord(tileSouth)},...`)
BBoxParam(t) ==
    [ west  |-> formatCoord(t.tileWest),
      south |-> formatCoord(t.tileSouth),
      east  |-> formatCoord(t.tileEast),
      north |-> formatCoord(t.tileNorth) ]

\* the exact tiles for which a request is pushed, in order
KeptTiles(b) == SelectSeq(GridTiles(b), TileKept)

\* the sub-queries issued for a box
TileQueries(b) ==
    LET kept == KeptTiles(b)
    IN  [k \in 1..Len(kept) |-> BBoxParam(kept[k])]

-----------------------------------------------------------------------------
(* NWIS site service responses: RDB text, a sequence of lines *)

\* cols[i] of a row that has no such column
Undefined == "<undefined>"

Line(kind, site_no, station_nm, dec_lat_va, dec_long_va) ==
    [ kind |-> kind, site_no |-> site_no, station_nm |-> station_nm,
      dec_lat_va |-> dec_lat_va, dec_long_va |-> dec_long_va ]

CommentLine == Line("comment", "#", Undefined, Undefined, Undefined)
HeaderLine  == Line("header", "site_no", "station_nm", "dec_lat_va", "dec_long_va")
FormatLine  == Line("format", "15s", "50s", "16s", "16s")
BlankLine   == Line("blank", Undefined, Undefined, Undefined, Undefined)
HtmlLine    == Line("other", Undefined, Undefined, Undefined, Undefined)
Row(site_no, station_nm, lat, lon) == Line("row", site_no, station_nm, lat, lon)

\* the empty string
EmptyText == << >>

\* Number(s) for the column texts that occur; NaN is [nan |-> TRUE]
NaN == [nan |-> TRUE, val |-> 0]
Num(v) == [nan |-> FALSE, val |-> v]
Number(s) ==
    CASE s = "" -> Num(0)
      [] s = "37" -> Num(37)
      [] s = "38" -> Num(38)
      [] s = "-121" -> Num(-121)
      [] s = "-122" -> Num(-122)
      [] OTHER -> NaN

\* a column text that is a decimal numeral
IsNumeral(s) == s \in {"37", "38", "-121", "-122"}

\* !s for a column text
Falsy(s) == s = "" \/ s = Undefined

\* lines.findIndex((l) => l.startsWith('agency_cd')), 1-based; 0 when absent
HeaderIndex(lines) ==
    IF \E i \in 1..Len(lines) : lines[i].kind = "header"
    THEN CHOOSE i \in 1..Len(lines) :
            /\ lines[i].kind = "header"
            /\ \A j \in 1..(i - 1) : lines[j].kind # "header"
    ELSE 0

\* uniqueByNumber.set(siteNumber, site): replace in place or append
MapSet(m, site) ==
    IF \E j \in 1..Len(m) : m[j].siteNumber = site.siteNumber
    THEN [j \in 1..Len(m) |->
            IF m[j].siteNumber = site.siteNumber THEN site ELSE m[j]]
    ELSE Append(m, site)

\* one iteration of the row loop (usgs.ts 120-141)
ParseRow(m, row) ==
    IF row.kind = "blank" \/ row.kind = "comment" THEN m
    ELSE LET siteNumber == row.site_no
             lat == Number(row.dec_lat_va)
             lon == Number(row.dec_long_va)
         IN  IF Falsy(siteNumber) \/ lat.nan \/ lon.nan THEN m
             ELSE MapSet(m, [ siteNumber |-> siteNumber, name |-> row.station_nm,
                              latitude |-> lat.val, longitude |-> lon.val ])

RECURSIVE ParseRows(_, _, _)
ParseRows(m, lines, i) ==
    IF i > Len(lines) THEN m
    ELSE ParseRows(ParseRow(m, lines[i]), lines, i + 1)

\* the body of "for (const text of texts)" (usgs.ts 99-143)
ParseText(m, text) ==
    IF text = EmptyText THEN m
    ELSE LET headerIndex == HeaderIndex(text)
         IN  IF headerIndex = 0 THEN m
             ELSE ParseRows(m, text, headerIndex + 2)

RECURSIVE MergeTexts(_, _, _)
MergeTexts(m, texts, i) ==
    IF i > Len(texts) THEN m
    ELSE MergeTexts(ParseText(m, texts[i]), texts, i + 1)

-----------------------------------------------------------------------------
(* fetchSitesByBBox as a process: issue, settle, merge *)

Pending == [status |-> "pending", body |-> EmptyText]
Failed  == [status |-> "failed", body |-> EmptyText]
Ok(text) == [status |-> "ok", body |-> text]

\* axios.get(url).then((r) => String(r.data)).catch(() => '')
QueryPromiseNoCatch(r) ==
    IF r.status = "failed" THEN [rejected |-> TRUE, text |-> EmptyText]
    ELSE [rejected |-> FALSE, text |-> r.body]
QueryPromise(r) ==
    IF r.status = "failed" THEN [rejected |-> FALSE, text |-> EmptyText]
    ELSE [rejected |-> FALSE, text |-> r.body]

\* the call up to "await Promise.all(queries)"
FetchCall(b) ==
    /\ fetchPc = "idle"
    /\ Len(KeptTiles(b)) <= MaxTiles
    /\ bbox' = b
    /\ queries' = TileQueries(b)
    /\ tileResp' = [k \in 1..Len(TileQueries(b)) |-> Pending]
    /\ fetchResult' = << >>
    /\ fetchPc' = "waiting"
    /\ UNCHANGED <<now, anomalyVars, httpVars, restVars>>

\* one sub-query's HTTP exchange ends
TileSettles(i, outcome) ==
    /\ fetchPc = "waiting"
    /\ i \in 1..Len(tileResp)
    /\ tileResp[i] = Pending
    /\ tileResp' = [tileResp EXCEPT ![i] = outcome]
    /\ UNCHANGED <<fetchPc, bbox, queries, fetchResult>>
    /\ UNCHANGED <<now, anomalyVars, httpVars, restVars>>

\* Promise.all settles; the merge loop runs; the call returns
FetchFinish ==
    /\ fetchPc = "waiting"
    /\ \A i \in 1..Len(tileResp) : tileResp[i] # Pending
    /\ LET promises == [i \in 1..Len(tileResp) |-> QueryPromise(tileResp[i])]
           texts == [i \in 1..Len(promises) |-> promises[i].text]
       IN  IF \E i \in 1..Len(promises) : promises[i].rejected
           THEN /\ fetchPc' = "rejected"
                /\ fetchResult' = << >>
           ELSE /\ fetchPc' = "resolved"
                /\ fetchResult' = MergeTexts(<< >>, texts, 1)
    /\ UNCHANGED <<bbox, queries, tileResp>>
    /\ UNCHANGED <<now, anomalyVars, httpVars, restVars>>

-----------------------------------------------------------------------------
(* MapView: Predict Anomaly (MapView.tsx 570-686), Reset, markers *)

\* client-side cool-down after a trigger, ms
COOLDOWN_MS == 10000
\* ms by which one step of the clock advances Date.now()
TickMs == 10000
\* steps of the clock
MaxTicks == 1
\* Predict Anomaly clicks that send a request
MaxClicks == 2

\* site numbers and ids are strings, modelled as sequences of characters
RECURSIVE StripLeadingZeros(_)
\* s.replace(/^0+/, '')
StripLeadingZeros(s) ==
    IF s # << >> /\ Head(s) = "0" THEN StripLeadingZeros(Tail(s)) ELSE s

RECURSIVE TrimStart(_)
TrimStart(s) == IF s # << >> /\ Head(s) = " " THEN TrimStart(Tail(s)) ELSE s
RECURSIVE TrimEnd(_)
TrimEnd(s) ==
    IF s # << >> /\ s[Len(s)] = " " THEN TrimEnd(SubSeq(s, 1, Len(s) - 1)) ELSE s
\* s.trim()
Trim(s) == TrimEnd(TrimStart(s))

\* Array.from(new Set(list)): first occurrences, in order
RECURSIVE Distinct(_)
Distinct(list) ==
    IF list = << >> THEN << >>
    ELSE LET init == Distinct(SubSeq(list, 1, Len(list) - 1))
             last == list[Len(list)]
         IN  IF \E i \in 1..Len(init) : init[i] = last THEN init ELSE Append(init, last)

\* an optional argument: passed or left undefined
Undef == [defined |-> FALSE, val |-> 0]
Def(v) == [defined |-> TRUE, val |-> v]

\* checkAnomaly (anomaly.ts 64-78): the POST it makes; JSON.stringify leaves
\* out a member whose value is undefined
checkAnomaly(siteList, thresholdPercent) ==
    [ method |-> "POST", url |-> "/anomaly/check",
      body |-> IF thresholdPercent.defined
               THEN [sites |-> siteList, threshold_percent |-> thresholdPercent.val]
               ELSE [sites |-> siteList] ]

\* getPredictionStatus (anomaly.ts 52-61): the GET it makes
getPredictionStatus(stationId) ==
    [ method |-> "GET", url |-> "/prediction/status", body |-> [site |-> stationId] ]

\* Record<string, boolean> as Object.keys and the keys whose value is true
EmptyMap == [keys |-> {}, flagged |-> {}]
MapPut(m, k, v) ==
    [ keys |-> m.keys \cup {k},
      flagged |-> IF v THEN m.flagged \cup {k} ELSE m.flagged \ {k} ]

\* one forEach iteration over resp.results / resp.items / resp (593-618)
ListEntry(m, r) ==
    LET id == Trim(r.id)
    IN  IF id = << >> THEN m ELSE MapPut(m, id, r.anomalous)

\* one forEach iteration over Object.keys(resp) (620-629)
ObjectEntry(m, r) ==
    CASE r.vkind = "object" -> IF r.has THEN MapPut(m, Trim(r.id), r.anomalous) ELSE m
      [] r.vkind = "boolean" -> MapPut(m, r.id, r.anomalous)
      [] OTHER -> m

RECURSIVE BuildMapFrom(_, _, _, _)
BuildMapFrom(m, shape, entries, i) ==
    IF i > Len(entries) THEN m
    ELSE BuildMapFrom(IF shape = "object" THEN ObjectEntry(m, entries[i])
                      ELSE ListEntry(m, entries[i]),
                      shape, entries, i + 1)

\* the map built from a response body (588-630)
BuildMap(resp) ==
    IF resp.shape \in {"results", "items", "array", "object"}
    THEN BuildMapFrom(EmptyMap, resp.shape, resp.entries, 1)
    ELSE EmptyMap

\* isAnomalous (98-105)
isAnomalousExactOnly(siteNumber) ==
    LET key == Trim(siteNumber)
    IN  key # << >> /\ key \in anomalyBySite.flagged
isAnomalous(siteNumber) ==
    \E c \in { siteNumber, StripLeadingZeros(siteNumber) } :
        LET key == Trim(c)
        IN  key # << >> /\ key \in anomalyBySite.flagged

\* icon={anomalous ? redDefaultIcon : defaultIcon} (245-251)
MarkerIcon(siteNumber) == IF isAnomalous(siteNumber) THEN "red" ELSE "default"

\* hasAnomalies (75)
hasAnomalies == anomalyBySite.flagged # {}

\* disabled={sites.length === 0 || anomalyStatus === 'loading'} (679)
PredictDisabledWhenEmptyOnly == Len(sites) = 0
PredictDisabled == Len(sites) = 0 \/ anomalyStatus = "loading"

Msg(kind, n) == [kind |-> kind, n |-> n]
CeilDiv(a, b) == -((-a) \div b)

\* click on Predict Anomaly, up to "await checkAnomaly(siteIds)" (570-585)
PredictClick ==
    /\ ~PredictDisabled
    /\ Len(sites) # 0
    /\ IF siteCooldownUntil # 0 /\ now < siteCooldownUntil
       THEN /\ anomalyStatus' = "error"
            /\ anomalyMessage' = Msg("wait", CeilDiv(siteCooldownUntil - now, 1000))
            /\ UNCHANGED <<handlers, sent>>
       ELSE /\ Len(handlers) < MaxClicks
            /\ anomalyStatus' = "loading"
            /\ anomalyMessage' = Msg("", 0)
            /\ LET siteIds == Distinct(sites)
               IN  /\ handlers' = Append(handlers,
                        [ now |-> now, siteIds |-> siteIds, pc |-> "awaitCheck",
                          outcome |-> "pending" ])
                   /\ sent' = Append(sent, checkAnomaly(siteIds, Undef))
    /\ UNCHANGED <<now, sites, siteCooldownUntil, anomalyBySite, fetchVars, httpVars, restVars>>

\* the check request fails: the catch block (669-671)
CheckFails(h) ==
    /\ h \in 1..Len(handlers)
    /\ handlers[h].pc = "awaitCheck"
    /\ handlers' = [handlers EXCEPT ![h].pc = "done", ![h].outcome = "error"]
    /\ anomalyStatus' = "error"
    /\ anomalyMessage' = Msg("failed", 0)
    /\ UNCHANGED <<now, sites, siteCooldownUntil, anomalyBySite, sent, fetchVars, httpVars, restVars>>

\* the check request succeeds: 586-647 and, unless a report is made, 666-668
CheckSucceeds(h, resp) ==
    /\ h \in 1..Len(handlers)
    /\ handlers[h].pc = "awaitCheck"
    /\ anomalyStatus' = "success"
    /\ LET map == BuildMap(resp)
           count == Cardinality(map.flagged)
       IN  IF map.keys # {}
           THEN /\ anomalyBySite' = map
                /\ anomalyMessage' = Msg("flagged", count)
                /\ IF count > 0
                   THEN /\ handlers' = [handlers EXCEPT ![h].pc = "awaitReport",
                                           ![h].outcome = "ok"]
                        /\ UNCHANGED siteCooldownUntil
                   ELSE /\ handlers' = [handlers EXCEPT ![h].pc = "done",
                                           ![h].outcome = "ok"]
                        /\ siteCooldownUntil' = handlers[h].now + COOLDOWN_MS
           ELSE /\ UNCHANGED anomalyBySite
                /\ anomalyMessage' = Msg("triggered", Len(handlers[h].siteIds))
                /\ handlers' = [handlers EXCEPT ![h].pc = "done",
                                   ![h].outcome = "ok"]
                /\ siteCooldownUntil' = handlers[h].now + COOLDOWN_MS
    /\ UNCHANGED <<now, sites, sent, fetchVars, httpVars, restVars>>

\* the snapshot and PDF report end, well or not: 648-668
ReportEnds(h) ==
    /\ h \in 1..Len(handlers)
    /\ handlers[h].pc = "awaitReport"
    /\ handlers' = [handlers EXCEPT ![h].pc = "done"]
    /\ siteCooldownUntil' = handlers[h].now + COOLDOWN_MS
    /\ UNCHANGED <<now, sites, anomalyStatus, anomalyMessage, anomalyBySite, sent, fetchVars, httpVars, restVars>>

\* click on Reset (688-689)
ResetClick ==
    /\ hasAnomalies
    /\ anomalyBySite' = EmptyMap
    /\ anomalyStatus' = "idle"
    /\ anomalyMessage' = Msg("reset", 0)
    /\ UNCHANGED <<now, sites, siteCooldownUntil, handlers, sent, fetchVars, httpVars, restVars>>

\* loadSites ends in setSites(res) or setSites([]) (117, 127)
SitesLoaded(list) ==
    /\ sites # list
    /\ sites' = list
    /\ UNCHANGED <<now, anomalyStatus, anomalyMessage, siteCooldownUntil, anomalyBySite,
                   handlers, sent, fetchVars, httpVars, restVars>>

\* time passes
Tick ==
    /\ now < (MaxTicks + 1) * TickMs
    /\ now' = now + TickMs
    /\ UNCHANGED <<anomalyVars, fetchVars, httpVars, restVars>>

-----------------------------------------------------------------------------
(* The shared http client's request interceptor (http.ts 7-19) *)

\* JSON values: the shapes a stored session can parse to
JUndefined == [type |-> "undefined"]
JNull == [type |-> "null"]
JNum(n) == [type |-> "number", n |-> n]
JStr(str) == [type |-> "string", s |-> str]
JSession(token, expiresAt) == [type |-> "object", token |-> token, expiresAt |-> expiresAt]

\* localStorage.getItem: null, or a text; a text is empty, or JSON, or neither
NoItem == [present |-> FALSE, empty |-> FALSE, json |-> FALSE, value |-> JUndefined]
EmptyItem == [present |-> TRUE, empty |-> TRUE, json |-> FALSE, value |-> JUndefined]
GarbageItem == [present |-> TRUE, empty |-> FALSE, json |-> FALSE, value |-> JUndefined]
JsonItem(v) == [present |-> TRUE, empty |-> FALSE, json |-> TRUE, value |-> v]

\* JSON.parse(raw): the value, or a SyntaxError thrown
JSONparse(raw) ==
    IF raw.json THEN [threw |-> FALSE, value |-> raw.value]
    ELSE [threw |-> TRUE, value |-> JUndefined]

\* s?.member
Member(v, name) ==
    IF v.type = "object"
    THEN IF name = "token" THEN v.token ELSE v.expiresAt
    ELSE JUndefined

\* a value in a condition
Truthy(v) ==
    CASE v.type = "string" -> v.s # ""
      [] v.type = "number" -> v.n # 0
      [] v.type = "object" -> TRUE
      [] OTHER -> FALSE

\* the headers the interceptor adds for a stored item at time t
SessionHeadersInclusive(raw, t) ==
    IF ~raw.present \/ raw.empty THEN {}
    ELSE LET parsed == JSONparse(raw)
         IN  IF parsed.threw THEN {}
             ELSE LET token == Member(parsed.value, "token")
                      expiresAt == Member(parsed.value, "expiresAt")
                  IN  IF Truthy(token) /\ expiresAt.type = "number" /\ t <= expiresAt.n
                      THEN { <<"X-Session-Token", token>> }
                      ELSE {}
SessionHeaders(raw, t) ==
    IF ~raw.present \/ raw.empty THEN {}
    ELSE LET parsed == JSONparse(raw)
         IN  IF parsed.threw THEN {}
             ELSE LET token == Member(parsed.value, "token")
                      expiresAt == Member(parsed.value, "expiresAt")
                  IN  IF Truthy(token) /\ expiresAt.type = "number" /\ t < expiresAt.n
                      THEN { <<"X-Session-Token", token>> }
                      ELSE {}

\* a request passes the interceptor: headers are added, the config returned
HttpRequest(config) ==
    /\ outgoing' = [ url |-> config.url,
                     headers |-> config.headers \cup SessionHeaders(storage, now),
                     failed |-> FALSE ]
    /\ UNCHANGED <<now, storage, anomalyVars, fetchVars, restVars>>

\* the session item is written or removed
StoreSession(raw) ==
    /\ storage # raw
    /\ storage' = raw
    /\ UNCHANGED <<now, outgoing, anomalyVars, fetchVars, restVars>>

-----------------------------------------------------------------------------
(* MapView: loadSites (MapView.tsx 108-133) *)

\* loadSites calls that start a fetch
MaxLoads == 3

\* a viewport as loadSites sees it: the key built from its corners rounded to
\* three decimals, whether it is wider or higher than MAX_WIDTH_DEG x
\* MAX_HEIGHT_DEG, and the sites fetchSitesByBBox returns for it
Viewport(key, mustZoom, result) == [key |-> key, mustZoom |-> mustZoom, result |-> result]
NoBounds == Viewport("", FALSE, << >>)

\* sitesInView (94)
sitesInView == IF needsZoom THEN << >> ELSE sites

\* loadSites(bounds) up to "await fetchSitesByBBox(...)" (108-126)
loadSites(bounds) ==
    /\ lastBounds' = bounds
    /\ needsZoom' = bounds.mustZoom
    /\ IF bounds.mustZoom
       THEN /\ sites' = << >>
            /\ UNCHANGED <<lastFetchKey, loading, loads>>
       ELSE IF lastFetchKey = bounds.key
            THEN UNCHANGED <<sites, lastFetchKey, loading, loads>>
            ELSE /\ Len(loads) < MaxLoads
                 /\ lastFetchKey' = bounds.key
                 /\ loading' = TRUE
                 /\ loads' = Append(loads, [bounds |-> bounds, pc |-> "awaitFetch"])
                 /\ UNCHANGED sites
    /\ UNCHANGED <<now, anomalyStatus, anomalyMessage, siteCooldownUntil, anomalyBySite,
                   handlers, sent, fetchVars, httpVars, trainVars, sideVars>>

\* fetchSitesByBBox resolves for the l-th call: setSites(res), finally (127-131)
LoadReturns(l) ==
    /\ l \in 1..Len(loads)
    /\ loads[l].pc = "awaitFetch"
    /\ sites' = loads[l].bounds.result
    /\ loading' = FALSE
    /\ loads' = [loads EXCEPT ![l].pc = "done"]
    /\ UNCHANGED <<now, needsZoom, lastFetchKey, lastBounds, anomalyStatus, anomalyMessage,
                   siteCooldownUntil, anomalyBySite, handlers, sent, fetchVars, httpVars,
                   trainVars, sideVars>>

-----------------------------------------------------------------------------
(* MapView: Train Models (MapView.tsx 389-407, anomaly.ts 28-41) *)

\* Train Models clicks that send a request
MaxTrains == 2

\* URLSearchParams as its name/value pairs in append order
NoParams == << >>
ParamsAppend(params, name, value) == Append(params, <<name, value>>)

RECURSIVE AppendStations(_, _, _)
AppendStations(params, stations, i) ==
    IF i > Len(stations) THEN params
    ELSE AppendStations(ParamsAppend(params, "station", stations[i]), stations, i + 1)

\* triggerTrainingBulk (anomaly.ts 28-41): the requests it makes
triggerTrainingBulkNoTrain(stations) ==
    IF Len(stations) = 0 THEN << >>
    ELSE << [ method |-> "GET", url |-> "/ingest",
              body |-> AppendStations(NoParams, stations, 1) ] >>
triggerTrainingBulk(stations) ==
    IF Len(stations) = 0 THEN << >>
    ELSE << [ method |-> "GET", url |-> "/ingest",
              body |-> ParamsAppend(AppendStations(NoParams, stations, 1), "train", "true") ] >>

\* disabled={sitesInView.length === 0 || trainingStatus === 'loading'} (404)
TrainDisabled == Len(sitesInView) = 0 \/ trainingStatus = "loading"

\* click on Train Models, up to "await triggerTrainingBulk(stations)" (390-396)
TrainClick ==
    /\ ~TrainDisabled
    /\ Len(trainHandlers) < MaxTrains
    /\ LET stations == Distinct(sitesInView)
       IN  IF Len(stations) = 0
           THEN UNCHANGED <<trainingStatus, trainingMessage, trainHandlers, sent>>
           ELSE /\ trainingStatus' = "loading"
                /\ trainingMessage' = Msg("", 0)
                /\ trainHandlers' = Append(trainHandlers,
                                           [stations |-> stations, pc |-> "awaitTrain"])
                /\ sent' = sent \o triggerTrainingBulk(stations)
    /\ UNCHANGED <<now, sites, anomalyStatus, anomalyMessage, siteCooldownUntil,
                   anomalyBySite, handlers, fetchVars, httpVars, loadVars, sideVars>>

\* the training request succeeds (397-398)
TrainSucceeds(h) ==
    /\ h \in 1..Len(trainHandlers)
    /\ trainHandlers[h].pc = "awaitTrain"
    /\ trainHandlers' = [trainHandlers EXCEPT ![h].pc = "done"]
    /\ trainingStatus' = "success"
    /\ trainingMessage' = Msg("trained", Len(trainHandlers[h].stations))
    /\ UNCHANGED <<now, anomalyVars, fetchVars, httpVars, loadVars, sideVars>>

\* the training request fails: the catch block (399-402)
TrainFails(h) ==
    /\ h \in 1..Len(trainHandlers)
    /\ trainHandlers[h].pc = "awaitTrain"
    /\ trainHandlers' = [trainHandlers EXCEPT ![h].pc = "done"]
    /\ trainingStatus' = "error"
    /\ trainingMessage' = Msg("trainFailed", 0)
    /\ UNCHANGED <<now, anomalyVars, fetchVars, httpVars, loadVars, sideVars>>

-----------------------------------------------------------------------------
(* MapView: recent alerts (MapView.tsx 176-194, 838-918, 941-1035) *)

\* alerts per page of the "All alerts" dialog
ALERTS_PER_PAGE == 5
\* alerts a response carries at most
MaxAlerts == 6
\* getRecentAlerts calls in flight at once
MaxAlertLoads == 2

\* Array.prototype.slice(start, end) for 0 <= start
Slice(a, start, end) == SubSeq(a, start + 1, Min(end, Len(a)))

\* the panel shows the "No Data" placeholder instead of the list (864)
PanelNoData == Len(recentAlerts) = 0 /\ ~recentAlertsLoading

\* the alert cards the panel renders (864-905)
PanelAlertsUnsliced == IF PanelNoData THEN << >> ELSE recentAlerts
PanelAlerts == IF PanelNoData THEN << >> ELSE Slice(recentAlerts, 0, 5)

\* the "View all n alerts" button is rendered (906-916)
ViewAllOffered == ~PanelNoData /\ Len(recentAlerts) > 5

\* pages of the dialog (963) and the alerts on its current page (964-967)
TotalPages == Max(1, CeilDiv(Len(recentAlerts), ALERTS_PER_PAGE))
PageItems ==
    LET page == Min(alertsPage, TotalPages)
        start == (page - 1) * ALERTS_PER_PAGE
        end == Min(start + ALERTS_PER_PAGE, Len(recentAlerts))
    IN  Slice(recentAlerts, start, end)

\* load() of the effect and the Refresh button, up to the await (180-183, 844-847)
AlertsLoadStarts ==
    /\ alertLoads < MaxAlertLoads
    /\ alertLoads' = alertLoads + 1
    /\ recentAlertsLoading' = TRUE
    /\ recentAlertsError' = ""
    /\ UNCHANGED <<recentAlerts, alertsModalOpen, alertsPage>>
    /\ UNCHANGED <<now, anomalyVars, fetchVars, httpVars, loadVars, trainVars, chartVars>>

\* getRecentAlerts resolves (184, 188)
AlertsLoaded(alerts) ==
    /\ alertLoads > 0
    /\ alertLoads' = alertLoads - 1
    /\ recentAlerts' = alerts
    /\ recentAlertsLoading' = FALSE
    /\ UNCHANGED <<recentAlertsError, alertsModalOpen, alertsPage>>
    /\ UNCHANGED <<now, anomalyVars, fetchVars, httpVars, loadVars, trainVars, chartVars>>

\* getRecentAlerts rejects (186, 188)
AlertsLoadFails ==
    /\ alertLoads > 0
    /\ alertLoads' = alertLoads - 1
    /\ recentAlertsError' = "failed"
    /\ recentAlertsLoading' = FALSE
    /\ UNCHANGED <<recentAlerts, alertsModalOpen, alertsPage>>
    /\ UNCHANGED <<now, anomalyVars, fetchVars, httpVars, loadVars, trainVars, chartVars>>

\* click on "View all" (910)
ViewAllClick ==
    /\ ViewAllOffered
    /\ alertsModalOpen' = TRUE
    /\ alertsPage' = 1
    /\ UNCHANGED <<recentAlerts, recentAlertsLoading, recentAlertsError, alertLoads>>
    /\ UNCHANGED <<now, anomalyVars, fetchVars, httpVars, loadVars, trainVars, chartVars>>

\* click on Close or on the backdrop (950, 958)
ModalClose ==
    /\ alertsModalOpen
    /\ alertsModalOpen' = FALSE
    /\ UNCHANGED <<recentAlerts, recentAlertsLoading, recentAlertsError, alertsPage, alertLoads>>
    /\ UNCHANGED <<now, anomalyVars, fetchVars, httpVars, loadVars, trainVars, chartVars>>

\* click on Next (1027-1028)
PageNext ==
    /\ alertsModalOpen
    /\ ~(alertsPage >= TotalPages)
    /\ alertsPage' = Min(TotalPages, alertsPage + 1)
    /\ UNCHANGED <<recentAlerts, recentAlertsLoading, recentAlertsError, alertsModalOpen,
                   alertLoads>>
    /\ UNCHANGED <<now, anomalyVars, fetchVars, httpVars, loadVars, trainVars, chartVars>>

\* click on Previous (1019-1020)
PagePrevious ==
    /\ alertsModalOpen
    /\ ~(alertsPage <= 1)
    /\ alertsPage' = Max(1, alertsPage - 1)
    /\ UNCHANGED <<recentAlerts, recentAlertsLoading, recentAlertsError, alertsModalOpen,
                   alertLoads>>
    /\ UNCHANGED <<now, anomalyVars, fetchVars, httpVars, loadVars, trainVars, chartVars>>

-----------------------------------------------------------------------------
(* Sparkline (Sparkline.tsx) *)

\* drawing width and horizontal margins, px
width == 800
marginLeft == 56
marginRight == 32
\* points a series holds at most, and the latest timestamp
MaxPoints == 2
MaxTime == 2

\* { timestampMs, value }: value is a number or null
Point(timestampMs, numeric, value) ==
    [timestampMs |-> timestampMs, numeric |-> numeric, value |-> value]
NullCursor == [set |-> FALSE, x |-> 0]
Cursor(x) == [set |-> TRUE, x |-> x]

\* points.filter((p) => typeof p.value === 'number') (22-23)
Numeric(p) == p.numeric
filtered == SelectSeq(points, Numeric)
filteredPred == SelectSeq(predictedPoints, Numeric)

\* the early return that renders "No Data" instead of the chart (24-31)
NoChart == Len(filtered) = 0 /\ Len(filteredPred) = 0

\* the time domain over both series (33-36, 48)
AllTimes ==
    { filtered[i].timestampMs : i \in 1..Len(filtered) } \cup
    { filteredPred[i].timestampMs : i \in 1..Len(filteredPred) }
minX == CHOOSE t \in AllTimes : \A u \in AllTimes : t <= u
maxX == CHOOSE t \in AllTimes : \A u \in AllTimes : u <= t
iw == Max(10, width - marginLeft - marginRight)
dx == IF maxX - minX = 0 THEN 1 ELSE maxX - minX

\* tAtCursor (134), as the exact fraction TAtCursorNum / TAtCursorDen
TAtCursorDen == Max(1, iw)
TAtCursorNum == minX * TAtCursorDen + (cursorX.x - marginLeft) * dx

\* Math.abs(arr[i].timestampMs - tAtCursor), in units of 1 / TAtCursorDen
CursorDist(p) == Abs(p.timestampMs * TAtCursorDen - TAtCursorNum)

\* the loop of nearest (137-142): the best index after arr[i..]
RECURSIVE NearestFromLastOnTies(_, _, _)
RECURSIVE NearestFrom(_, _, _)
NearestFromLastOnTies(arr, i, bestIdx) ==
    IF i > Len(arr) THEN bestIdx
    ELSE NearestFromLastOnTies(arr, i + 1,
             IF CursorDist(arr[i]) <= CursorDist(arr[bestIdx]) THEN i ELSE bestIdx)
NearestFrom(arr, i, bestIdx) ==
    IF i > Len(arr) THEN bestIdx
    ELSE NearestFrom(arr, i + 1,
             IF CursorDist(arr[i]) < CursorDist(arr[bestIdx]) THEN i ELSE bestIdx)

\* nearest (135-144)
NoPoint == [found |-> FALSE, t |-> 0, v |-> 0]
nearest(arr) ==
    IF Len(arr) = 0 THEN NoPoint
    ELSE LET bestIdx == NearestFrom(arr, 2, 1)
         IN  [found |-> TRUE, t |-> arr[bestIdx].timestampMs, v |-> arr[bestIdx].value]

\* nReal / nPred (145-146)
nReal == IF showActual THEN nearest(filtered) ELSE NoPoint
nPred == IF showPredicted THEN nearest(filteredPred) ELSE NoPoint

\* the tooltip is rendered (132)
TooltipShown == ~NoChart /\ cursorX.set

\* the tooltip's value lines (156-160), as the label and the value handed to
\* fmtNum, and the highlight dots (166-171)
TooltipLines ==
    (IF nReal.found THEN { <<"Real", nReal.v>> } ELSE {}) \cup
    (IF nPred.found THEN { <<"Predicted", nPred.v>> } ELSE {})
HighlightDots ==
    (IF nReal.found THEN { <<"Real", nReal.t, nReal.v>> } ELSE {}) \cup
    (IF nPred.found THEN { <<"Predicted", nPred.t, nPred.v>> } ELSE {})

\* the chart receives its series (MapView.tsx 565)
SeriesLoaded(real, predicted) ==
    /\ points = << >> /\ predictedPoints = << >>
    /\ points' = real
    /\ predictedPoints' = predicted
    /\ UNCHANGED <<showActual, showPredicted, cursorX, mouseX>>
    /\ UNCHANGED <<now, anomalyVars, fetchVars, httpVars, loadVars, trainVars, alertVars>>

\* the Real / Predicted checkboxes (MapView.tsx 554, 559)
ToggleActual ==
    /\ showActual' = ~showActual
    /\ UNCHANGED <<points, predictedPoints, showPredicted, cursorX, mouseX>>
    /\ UNCHANGED <<now, anomalyVars, fetchVars, httpVars, loadVars, trainVars, alertVars>>
TogglePredicted ==
    /\ showPredicted' = ~showPredicted
    /\ UNCHANGED <<points, predictedPoints, showActual, cursorX, mouseX>>
    /\ UNCHANGED <<now, anomalyVars, fetchVars, httpVars, loadVars, trainVars, alertVars>>

\* handleMouseMove (73-82): x is (e.clientX - rect.left) / rect.width * width
handleMouseMove(x) ==
    /\ ~NoChart
    /\ mouseX' = x
    /\ cursorX' = Cursor(Max(marginLeft, Min(marginLeft + iw, Max(0, Min(width, x)))))
    /\ UNCHANGED <<points, predictedPoints, showActual, showPredicted>>
    /\ UNCHANGED <<now, anomalyVars, fetchVars, httpVars, loadVars, trainVars, alertVars>>

\* handleMouseLeave (84)
handleMouseLeave ==
    /\ ~NoChart
    /\ cursorX.set
    /\ cursorX' = NullCursor
    /\ UNCHANGED <<points, predictedPoints, showActual, showPredicted, mouseX>>
    /\ UNCHANGED <<now, anomalyVars, fetchVars, httpVars, loadVars, trainVars, alertVars>>

-----------------------------------------------------------------------------
(* Enumerated inputs *)

\* coordinates on, just above, half way between and just below whole degrees
CoordVals ==
    { k * Deg + o : k \in (-1)..MaxDeg, o \in {0, 1, Deg \div 2, Deg - 1} }
        \cup { (MaxDeg + 1) * Deg }
\* coordinates on whole degrees
AlignedVals == { k * Deg : k \in (-1)..(MaxDeg + 1) }

TextA ==
    << CommentLine, HeaderLine, FormatLine,
       Row("09380000", "COLORADO R", "37", "-121"),
       Row("0001", "SMALL CR", "38", "-122"), BlankLine >>
TextB ==
    << HeaderLine, FormatLine,
       Row("09380000", "COLORADO RIVER AT LEES FERRY", "37", "-121"),
       Row("0777", "NO LATITUDE", "", "-122") >>
TextC ==
    << CommentLine, HeaderLine, FormatLine,
       Row("0001", "BAD LAT", "n/a", "-122"),
       Row("", "NO NUMBER", "37", "-121"),
       CommentLine,
       Row("0555", "SHORT ROW", "38", Undefined), BlankLine >>
TextErr == << HtmlLine, HtmlLine >>

TilingOutcomes == { Ok(TextA) }
FetchOutcomes == { Ok(TextA), Ok(TextB), Ok(TextC), Ok(TextErr), Failed }

FetchInit ==
    /\ fetchPc = "idle"
    /\ bbox = <<0, 0, 0, 0>>
    /\ queries = << >>
    /\ tileResp = << >>
    /\ fetchResult = << >>

\* site numbers as the site service lists them
SiteLists ==
    { << >>,
      << <<"0", "1">>, <<"1", "0">> >>,
      << <<"1">>, <<"0", "1", "0">> >> }

Entry(id, vkind, has, anomalous) ==
    [id |-> id, vkind |-> vkind, has |-> has, anomalous |-> anomalous]
Result(id, anomalous) == Entry(id, "object", TRUE, anomalous)

\* { results: [{site: " 1 ", anomalous: true}, {site: "10"}, {anomalous: true}] }
RespResults ==
    [ shape |-> "results",
      entries |-> << Result(<<" ", "1", " ">>, TRUE), Result(<<"1", "0">>, FALSE),
                     Result(<< >>, TRUE) >> ]
\* { items: [...] } naming site 01 twice, the later result not anomalous
RespItems ==
    [ shape |-> "items",
      entries |-> << Result(<<"0", "1">>, TRUE), Result(<<"0", "1">>, FALSE),
                     Result(<<"0", "1", "0">>, TRUE) >> ]
\* [{station: "10", anomalous: true}]
RespArray == [ shape |-> "array", entries |-> << Result(<<"1", "0">>, TRUE) >> ]
\* { "01": {anomalous: true}, " 10": true, "1": {reason: "x"}, "n": 3 }
RespObject ==
    [ shape |-> "object",
      entries |-> << Entry(<<"0", "1">>, "object", TRUE, TRUE),
                     Entry(<<" ", "1", "0">>, "boolean", FALSE, TRUE),
                     Entry(<<"1">>, "object", FALSE, FALSE),
                     Entry(<<"n">>, "other", FALSE, FALSE) >> ]
\* { results: [{site: "01", anomalous: false}, {site: "10", anomalous: false}] }
RespClean ==
    [ shape |-> "results",
      entries |-> << Result(<<"0", "1">>, FALSE), Result(<<"1", "0">>, FALSE) >> ]
\* { results: [] }
RespEmpty == [ shape |-> "results", entries |-> << >> ]
\* a body that is no object, such as "accepted"
RespOther == [ shape |-> "other", entries |-> << >> ]

CheckResponses ==
    { RespResults, RespItems, RespArray, RespObject, RespClean, RespEmpty, RespOther }

AnomalyInit ==
    /\ now = TickMs
    /\ sites = << >>
    /\ anomalyStatus = "idle"
    /\ anomalyMessage = Msg("", 0)
    /\ siteCooldownUntil = 0
    /\ anomalyBySite = EmptyMap
    /\ handlers = << >>
    /\ sent = << >>

\* what the session item can hold
StoredItems ==
    { NoItem, EmptyItem, GarbageItem, JsonItem(JNull), JsonItem(JNum(2 * TickMs)),
      JsonItem(JSession(JUndefined, JNum(3 * TickMs))) }
    \cup { JsonItem(JSession(t, e)) :
             t \in { JStr(""), JStr("tok-a"), JStr("tok-b") },
             e \in { JUndefined, JStr("15000"), JNum(0), JNum(2 * TickMs), JNum(3 * TickMs) } }

\* requests as the API modules make them
RequestConfigs ==
    { [url |-> "/alerts", headers |-> {}],
      [url |-> "/anomaly/check", headers |-> { <<"Content-Type", JStr("application/json")>> }] }

NoRequest == [url |-> "", headers |-> {}, failed |-> FALSE]

HttpInit ==
    /\ storage = NoItem
    /\ outgoing = NoRequest

\* viewports: two that load different sites, one too wide to load
ViewA == Viewport("a", FALSE, << <<"0", "1">>, <<"1", "0">> >>)
ViewB == Viewport("b", FALSE, << <<"1">>, <<"0", "1", "0">> >>)
ViewWide == Viewport("w", TRUE, << >>)
Viewports == { ViewA, ViewB, ViewWide }

LoadInit ==
    /\ needsZoom = FALSE
    /\ loading = FALSE
    /\ lastFetchKey = ""
    /\ lastBounds = NoBounds
    /\ loads = << >>

TrainInit ==
    /\ trainingStatus = "idle"
    /\ trainingMessage = Msg("", 0)
    /\ trainHandlers = << >>

\* responses of GET /alerts: n alerts, newest first or oldest first
AlertLists ==
    { [i \in 1..n |-> i] : n \in 0..MaxAlerts } \cup
    { [i \in 1..n |-> n + 1 - i] : n \in 0..MaxAlerts }

AlertsInit ==
    /\ recentAlerts = << >>
    /\ recentAlertsLoading = FALSE
    /\ recentAlertsError = ""
    /\ alertsModalOpen = FALSE
    /\ alertsPage = 1
    /\ alertLoads = 0

\* series of up to MaxPoints points in any order, each numeric or null, the
\* value of the i-th point being i
PointsAt(i) ==
    { Point(t, numeric, i) : t \in 0..MaxTime, numeric \in BOOLEAN }
SeriesSet ==
    UNION { { s \in [1..n -> UNION { PointsAt(i) : i \in 1..n }] :
                \A i \in 1..n : s[i] \in PointsAt(i) } : n \in 0..MaxPoints }
\* predicted series for a real series: none, the times shifted by one, and
\* the times in reverse order
Shifted(series, by) ==
    [i \in 1..Len(series) |->
        Point(series[i].timestampMs + by, series[i].numeric, 10 + i)]
Reversed(series) ==
    [i \in 1..Len(series) |->
        Point(series[Len(series) + 1 - i].timestampMs, TRUE, 10 + i)]
PredictedFor(series) ==
    { << >>, Shifted(series, 1), Reversed(series) }
\* mouse positions: the edges of the drawing and quarters of the plot area
MouseXs ==
    { 0, marginLeft, marginLeft + 1, marginLeft + iw \div 4, marginLeft + iw \div 2,
      marginLeft + (3 * iw) \div 4, marginLeft + iw, width }

ChartInit ==
    /\ points = << >>
    /\ predictedPoints = << >>
    /\ showActual = TRUE
    /\ showPredicted = TRUE
    /\ cursorX = NullCursor
    /\ mouseX = 0

Init ==
    FetchInit /\ AnomalyInit /\ HttpInit /\ LoadInit /\ TrainInit /\ AlertsInit /\ ChartInit

\* fetchSitesByBBox over boxes with sub-format precision
CallAnyBox == fetchPc = "idle" /\ \E w, e, s, n \in CoordVals : FetchCall(<<w, s, e, n>>)
SettleTiling == \E i \in 1..Len(tileResp), o \in TilingOutcomes : TileSettles(i, o)
NextTiles == CallAnyBox \/ SettleTiling \/ FetchFinish
SpecTiles == Init /\ [][NextTiles]_vars

\* fetchSitesByBBox over whole-degree boxes with varied responses
CallAlignedBox == fetchPc = "idle" /\ \E w, e, s, n \in AlignedVals : FetchCall(<<w, s, e, n>>)
SettleFetch == \E i \in 1..Len(tileResp), o \in FetchOutcomes : TileSettles(i, o)
NextFetch == CallAlignedBox \/ SettleFetch \/ FetchFinish
SpecFetch == Init /\ [][NextFetch]_vars

\* the map view's anomaly controls
LoadAnySites == \E list \in SiteLists : SitesLoaded(list)
AnyCheckFails == \E h \in 1..Len(handlers) : CheckFails(h)
AnyCheckSucceeds == \E h \in 1..Len(handlers), resp \in CheckResponses : CheckSucceeds(h, resp)
AnyReportEnds == \E h \in 1..Len(handlers) : ReportEnds(h)
NextAnomaly ==
    \/ LoadAnySites
    \/ PredictClick
    \/ AnyCheckFails
    \/ AnyCheckSucceeds
    \/ AnyReportEnds
    \/ ResetClick
    \/ Tick
SpecAnomaly == Init /\ [][NextAnomaly]_vars

\* requests through the http client while the stored session changes
StoreAnySession == \E raw \in StoredItems : StoreSession(raw)
AnyHttpRequest == \E config \in RequestConfigs : HttpRequest(config)
NextHttp == StoreAnySession \/ AnyHttpRequest \/ Tick
SpecHttp == Init /\ [][NextHttp]_vars

\* the map moves while earlier site loads are in flight
MapMoves == \E bounds \in Viewports : loadSites(bounds)
AnyLoadReturns == \E l \in 1..Len(loads) : LoadReturns(l)
NextLoad == MapMoves \/ AnyLoadReturns
SpecLoad == Init /\ [][NextLoad]_vars

\* Train Models over the sites the map loads
AnyTrainSucceeds == \E h \in 1..Len(trainHandlers) : TrainSucceeds(h)
AnyTrainFails == \E h \in 1..Len(trainHandlers) : TrainFails(h)
NextTrain == MapMoves \/ AnyLoadReturns \/ TrainClick \/ AnyTrainSucceeds \/ AnyTrainFails
SpecTrain == Init /\ [][NextTrain]_vars

\* the Alerts tab
AnyAlertsLoaded == \E alerts \in AlertLists : AlertsLoaded(alerts)
NextAlerts ==
    \/ AlertsLoadStarts
    \/ AnyAlertsLoaded
    \/ AlertsLoadFails
    \/ ViewAllClick
    \/ ModalClose
    \/ PageNext
    \/ PagePrevious
SpecAlerts == Init /\ [][NextAlerts]_vars

\* the chart under the mouse
LoadAnySeries ==
    /\ points = << >> /\ predictedPoints = << >>
    /\ \E real \in SeriesSet : \E predicted \in PredictedFor(real) :
          SeriesLoaded(real, predicted)
AnyMouseMove == \E x \in MouseXs : handleMouseMove(x)
NextChart ==
    \/ LoadAnySeries
    \/ ToggleActual
    \/ TogglePredicted
    \/ AnyMouseMove
    \/ handleMouseLeave
SpecChart == Init /\ [][NextChart]_vars

-----------------------------------------------------------------------------
(* Properties of the tiling *)

\* the sub-queries in model units
QueryTiles ==
    [k \in 1..Len(queries) |->
        [ west |-> Denote(queries[k].west), south |-> Denote(queries[k].south),
          east |-> Denote(queries[k].east), north |-> Denote(queries[k].north) ]]

\* the coordinates at which a tile or the box begins or ends, on one axis
Breaks(lo, hi, edges) == { v \in edges \cup {lo, hi} : lo <= v /\ v <= hi }

\* the elementary intervals those coordinates cut [lo, hi] into
Intervals(lo, hi, edges) ==
    IF lo = hi THEN { <<lo, hi>> }
    ELSE { p \in Breaks(lo, hi, edges) \X Breaks(lo, hi, edges) :
             /\ p[1] < p[2]
             /\ \A c \in Breaks(lo, hi, edges) : ~(p[1] < c /\ c < p[2]) }

\* tiles cover the box [w, e] x [s, n] exactly: nothing outside, every point
\* inside at least one tile, distinct tiles sharing at most a border
ExactCover(tiles, w, s, e, n) ==
    LET idx == 1..Len(tiles)
        xs == Intervals(w, e, { tiles[k].west : k \in idx } \cup { tiles[k].east : k \in idx })
        ys == Intervals(s, n, { tiles[k].south : k \in idx } \cup { tiles[k].north : k \in idx })
    IN  /\ \A k \in idx :
              /\ w <= tiles[k].west /\ tiles[k].east <= e
              /\ s <= tiles[k].south /\ tiles[k].north <= n
        /\ \A ix \in xs, iy \in ys : \E k \in idx :
              /\ tiles[k].west <= ix[1] /\ ix[2] <= tiles[k].east
              /\ tiles[k].south <= iy[1] /\ iy[2] <= tiles[k].north
        /\ \A j, k \in idx : j # k =>
              \/ Max(tiles[j].west, tiles[k].west) >= Min(tiles[j].east, tiles[k].east)
              \/ Max(tiles[j].south, tiles[k].south) >= Min(tiles[j].north, tiles[k].north)

Called == fetchPc # "idle"
ZeroArea(b) == West(b) = East(b) \/ South(b) = North(b)

\* a zero-width or zero-height box issues no query and returns the empty list
ZeroAreaIssuesNothing ==
    (Called /\ ZeroArea(bbox)) =>
        /\ queries = << >>
        /\ fetchPc = "resolved" => fetchResult = << >>

\* C1: every sub-query fetchSitesByBBox issues has a bBox whose width and
\* height are each greater than 0 and at most 1 degree.
C1_SubQueriesPositiveAtMostOneDegree ==
    \A k \in 1..Len(queries) :
        /\ 0 < queries[k].east - queries[k].west
        /\ queries[k].east - queries[k].west <= FormatSteps
        /\ 0 < queries[k].north - queries[k].south
        /\ queries[k].north - queries[k].south <= FormatSteps

\* C2 as stated: for a box of positive width and height the queried tiles
\* exactly cover the normalized box; a zero-area box issues no query and
\* returns the empty list.
C2_TilesExactlyCoverBox ==
    /\ (Called /\ ~ZeroArea(bbox)) =>
          ExactCover(QueryTiles, West(bbox), South(bbox), East(bbox), North(bbox))
    /\ ZeroAreaIssuesNothing

\* C2 amended: for a box of positive width and height the queried tiles
\* exactly cover the normalized box with each corner rounded to seven
\* decimals; a zero-area box issues no query and returns the empty list.
C2_TilesExactlyCoverRoundedBox ==
    /\ (Called /\ ~ZeroArea(bbox)) =>
          /\ Len(queries) > 0
          /\ ExactCover(QueryTiles,
                        Denote(formatCoord(West(bbox))), Denote(formatCoord(South(bbox))),
                        Denote(formatCoord(East(bbox))), Denote(formatCoord(North(bbox))))
    /\ ZeroAreaIssuesNothing

\* C2 witness: a resolved call over a 2 x 2 grid whose corners all carry
\* more than seven decimals
C2_Witness ==
    /\ fetchPc = "resolved"
    /\ Len(queries) = 4
    /\ \A c \in 1..4 : Denote(formatCoord(bbox[c])) # bbox[c]

-----------------------------------------------------------------------------
(* Properties of the merge *)

SiteNumbers(m) == { m[j].siteNumber : j \in 1..Len(m) }
OkTiles == { k \in 1..Len(tileResp) : tileResp[k].status = "ok" }
FailedTiles == { k \in 1..Len(tileResp) : tileResp[k].status = "failed" }

\* the site numbers of the data rows of a response that have a site number
\* and numeric latitude and longitude
ValidRowNumbers(text) ==
    { text[i].site_no : i \in { j \in 1..Len(text) :
        /\ text[j].kind = "row"
        /\ ~Falsy(text[j].site_no)
        /\ IsNumeral(text[j].dec_lat_va)
        /\ IsNumeral(text[j].dec_long_va) } }

\* C3: the returned list holds each site number at most once, and holds a
\* site number exactly when some successful tile response has a data row
\* with that number and numeric latitude and longitude.
C3_ResultIsTheValidRowsOnce ==
    fetchPc = "resolved" =>
        /\ \A i, j \in 1..Len(fetchResult) :
              fetchResult[i].siteNumber = fetchResult[j].siteNumber => i = j
        /\ SiteNumbers(fetchResult) =
              UNION { ValidRowNumbers(tileResp[k].body) : k \in OkTiles }

\* C4: a failed tile request does not fail the call: the call never rejects,
\* a settled call can return, and the result holds exactly the sites parsed
\* from the tiles that succeeded.
C4_FailedTilesAreSkipped ==
    /\ fetchPc # "rejected"
    /\ fetchPc = "resolved" =>
          SiteNumbers(fetchResult) =
              UNION { SiteNumbers(ParseText(<< >>, tileResp[k].body)) : k \in OkTiles }

\* C4 witness: a call resolved with sites although one of its tiles failed
C4_Witness ==
    /\ fetchPc = "resolved"
    /\ FailedTiles # {}
    /\ OkTiles # {}
    /\ fetchResult # << >>

-----------------------------------------------------------------------------
(* Properties of Predict Anomaly *)

CheckInFlight == \E h \in 1..Len(handlers) : handlers[h].pc = "awaitCheck"
CooldownActive == siteCooldownUntil # 0 /\ now < siteCooldownUntil
\* a check succeeded and COOLDOWN_MS have not passed since it was triggered
InCooldownAfterSuccess ==
    \E h \in 1..Len(handlers) :
        handlers[h].outcome = "ok" /\ now < handlers[h].now + COOLDOWN_MS
\* this step hands a request to the http client
Sends == Len(sent') = Len(sent) + 1
\* this step ends a check request, well or not
CheckSettles ==
    \E h \in 1..Len(handlers) : handlers[h].pc = "awaitCheck" /\ handlers'[h].pc # "awaitCheck"

\* C5: once an anomaly check has succeeded, a click on Predict Anomaly
\* inside the cool-down sends nothing and shows the "Please wait" message.
C5_ClickInsideCooldownSendsNothing ==
    [][(PredictClick /\ InCooldownAfterSuccess) =>
          (sent' = sent /\ anomalyMessage'.kind = "wait")]_vars

C7_StatusQueriedBeforeTrigger ==
    [][ (Sends /\ sent'[Len(sent')].url = "/anomaly/check") =>
          /\ \E j \in 1..Len(sent) : sent[j].url = getPredictionStatus(<< >>).url
          /\ ~CheckInFlight ]_vars

\* C8: every anomaly check is a POST to /anomaly/check whose body carries the
\* distinct numbers of the loaded sites and threshold_percent 10.
C8_CheckBodyCarriesSitesAndThreshold ==
    [][ Sends =>
          LET r == sent'[Len(sent')]
          IN  /\ r.method = "POST"
              /\ r.url = "/anomaly/check"
              /\ { r.body.sites[i] : i \in 1..Len(r.body.sites) } =
                    { sites[i] : i \in 1..Len(sites) }
              /\ \A i, j \in 1..Len(r.body.sites) :
                    r.body.sites[i] = r.body.sites[j] => i = j
              /\ "threshold_percent" \in DOMAIN r.body
              /\ r.body.threshold_percent = 10 ]_vars

\* the key under which the handler files a result, << >> when it files none
ResultKey(shape, r) ==
    CASE shape \in {"results", "items", "array"} -> Trim(r.id)
      [] shape = "object" /\ r.vkind = "object" /\ r.has -> Trim(r.id)
      [] shape = "object" /\ r.vkind = "boolean" -> r.id
      [] OTHER -> << >>
Recognised(shape, r) ==
    \/ shape \in {"results", "items", "array"} /\ Trim(r.id) # << >>
    \/ shape = "object" /\ r.vkind = "object" /\ r.has
    \/ shape = "object" /\ r.vkind = "boolean"
Recognisable(resp) ==
    \E i \in 1..Len(resp.entries) : Recognised(resp.shape, resp.entries[i])
\* the response's (last) result for key k says anomalous
Flags(resp, k) ==
    LET named == { i \in 1..Len(resp.entries) :
                     Recognised(resp.shape, resp.entries[i])
                     /\ ResultKey(resp.shape, resp.entries[i]) = k }
    IN  /\ named # {}
        /\ resp.entries[CHOOSE i \in named : \A j \in named : j <= i].anomalous

\* C9: when a check response with a recognisable result arrives, a site's
\* marker is red exactly if the response flagged the site under its number
\* or under its number without leading zeros; every other marker is default.
C9_RedExactlyIfFlagged ==
    [][ \A h \in 1..Len(handlers), resp \in CheckResponses :
          ( /\ handlers[h].pc = "awaitCheck"
            /\ handlers'[h].outcome = "ok"
            /\ Recognisable(resp)
            /\ CheckSucceeds(h, resp) ) =>
          \A i \in 1..Len(sites') :
              MarkerIcon(sites[i])' =
                 IF \/ Flags(resp, sites'[i])
                    \/ Flags(resp, StripLeadingZeros(sites'[i]))
                 THEN "red" ELSE "default" ]_vars

\* C9 witness: after a check, one marker is red through its number without
\* leading zeros only, and another is default
C9_Witness ==
    /\ \E h \in 1..Len(handlers) : handlers[h].outcome = "ok"
    /\ \E i \in 1..Len(sites) :
          MarkerIcon(sites[i]) = "red" /\ sites[i] \notin anomalyBySite.flagged
    /\ \E i \in 1..Len(sites) : MarkerIcon(sites[i]) = "default"

-----------------------------------------------------------------------------
(* Properties of the http client *)

\* the stored item is a session with a non-empty token and a numeric
\* expiresAt later than t
LiveSession(raw, t) ==
    /\ raw.present /\ raw.json
    /\ raw.value.type = "object"
    /\ raw.value.token.type = "string" /\ raw.value.token.s # ""
    /\ raw.value.expiresAt.type = "number" /\ t < raw.value.expiresAt.n

SessionTokenHeaders(request) == { h \in request.headers : h[1] = "X-Session-Token" }

\* C10: a request carries X-Session-Token, equal to the stored token, exactly
\* if storage holds a session with a non-empty token and a numeric expiresAt
\* later than now; otherwise it carries no such header; it never fails.
C10_TokenHeaderIffLiveSession ==
    [][ \A config \in RequestConfigs : HttpRequest(config) =>
          /\ ~outgoing'.failed
          /\ outgoing'.url = config.url
          /\ config.headers \subseteq outgoing'.headers
          /\ IF LiveSession(storage, now)
             THEN SessionTokenHeaders(outgoing') = { <<"X-Session-Token", storage.value.token>> }
             ELSE SessionTokenHeaders(outgoing') = {} ]_vars

\* C10 witness: a request left with the token header and the request's own
\* headers, after which the session expired
C10_Witness ==
    /\ SessionTokenHeaders(outgoing) # {}
    /\ Cardinality(outgoing.headers) = 2
    /\ ~LiveSession(storage, now)
    /\ storage.present /\ storage.json /\ storage.value.type = "object"
    /\ storage.value.token = JStr("tok-a")

-----------------------------------------------------------------------------
(* Properties of Train Models *)

VisibleNumbers == { sitesInView[i] : i \in 1..Len(sitesInView) }
TrainInFlight == \E h \in 1..Len(trainHandlers) : trainHandlers[h].pc = "awaitTrain"
TrainSettles ==
    \E h \in 1..Len(trainHandlers) :
        trainHandlers[h].pc = "awaitTrain" /\ trainHandlers'[h].pc = "done"
\* the name/value pairs of a request's query string with the given name
ParamsNamed(r, name) == { i \in 1..Len(r.body) : r.body[i][1] = name }

\* C11: a click on Train Models with visible sites sends exactly one GET
\* /ingest with one station parameter per distinct visible site number and
\* train=true; when the request settles the training status is 'success' or
\* 'error' and it is 'loading' only while a request is in flight; no request
\* is sent while no site is visible.
C11_TrainSendsOneBulkRequest ==
    [][ /\ (TrainClick /\ VisibleNumbers # {}) =>
              /\ Len(sent') = Len(sent) + 1
              /\ LET r == sent'[Len(sent')]
                 IN  /\ r.method = "GET"
                     /\ r.url = "/ingest"
                     /\ { r.body[i][2] : i \in ParamsNamed(r, "station") } = VisibleNumbers
                     /\ Cardinality(ParamsNamed(r, "station")) = Cardinality(VisibleNumbers)
                     /\ { r.body[i][2] : i \in ParamsNamed(r, "train") } = {"true"}
                     /\ Cardinality(ParamsNamed(r, "train")) = 1
                     /\ Len(r.body) = Cardinality(VisibleNumbers) + 1
        /\ TrainSettles => trainingStatus' \in {"success", "error"}
        /\ trainingStatus' = "loading" =>
              \E h \in 1..Len(trainHandlers') : trainHandlers'[h].pc = "awaitTrain"
        /\ VisibleNumbers = {} => sent' = sent ]_vars

\* C11 witness: two training requests were sent over different visible site
\* lists, both have settled and the later to settle succeeded
C11_Witness ==
    /\ Len(trainHandlers) = 2
    /\ Len(sent) = 2
    /\ sent[1] # sent[2]
    /\ ~TrainInFlight
    /\ trainingStatus = "success"

-----------------------------------------------------------------------------
(* Properties of the Alerts panel *)

\* C12: with n alerts loaded the panel lists exactly the first min(5, n) of
\* them, in order, and offers "View all" exactly if n > 5; the dialog it
\* opens pages through all n alerts.
C12_PanelListsFirstFive ==
    LET n == Len(recentAlerts)
        shown == IF n < 5 THEN n ELSE 5
    IN  /\ Len(PanelAlerts) = shown
        /\ \A i \in 1..shown : PanelAlerts[i] = recentAlerts[i]
        /\ ViewAllOffered <=> n > 5
        /\ alertsModalOpen =>
              /\ TotalPages * ALERTS_PER_PAGE >= n
              /\ \A i \in 1..Len(PageItems) :
                    PageItems[i] = recentAlerts[(Min(alertsPage, TotalPages) - 1) * ALERTS_PER_PAGE + i]

\* C12 witness: more than five alerts are loaded, the dialog opened through
\* "View all" shows its last page
C12_Witness ==
    /\ Len(recentAlerts) > 5
    /\ Len(PanelAlerts) = 5
    /\ alertsModalOpen
    /\ alertsPage = 2
    /\ Len(PageItems) = Len(recentAlerts) - 5

-----------------------------------------------------------------------------
(* Properties of the chart tooltip *)

\* distance between a point's time and the time drawn under the mouse, the
\* time t with marginLeft + ((t - minX) / dx) * iw = mouseX, in units of 1 / iw
MouseDist(p) == Abs((p.timestampMs - minX) * iw - (mouseX - marginLeft) * dx)

\* the first point of a series among those nearest to the time under the mouse
FirstNearest(arr) ==
    CHOOSE i \in 1..Len(arr) :
        /\ \A j \in 1..Len(arr) : MouseDist(arr[i]) <= MouseDist(arr[j])
        /\ \A j \in 1..(i - 1) : MouseDist(arr[j]) > MouseDist(arr[i])

\* what a series contributes: its first nearest numeric point if it is
\* toggled on and has a numeric point, nothing otherwise
Contribution(label, on, arr) ==
    IF on /\ Len(arr) > 0
    THEN { <<label, arr[FirstNearest(arr)].timestampMs, arr[FirstNearest(arr)].value>> }
    ELSE {}

\* a series in time order, as a time series arrives
Chronological(arr) ==
    \A i, j \in 1..Len(arr) : i < j => arr[i].timestampMs <= arr[j].timestampMs

\* t is the earliest of the series' timestamps nearest to the time under the mouse
EarliestNearest(arr, t) ==
    \E i \in 1..Len(arr) :
        /\ arr[i].timestampMs = t
        /\ \A j \in 1..Len(arr) :
              \/ MouseDist(arr[i]) < MouseDist(arr[j])
              \/ MouseDist(arr[i]) = MouseDist(arr[j]) /\ t <= arr[j].timestampMs

-----------------------------------------------------------------------------
(* Properties of loadSites *)

LoadInFlight == \E l \in 1..Len(loads) : loads[l].pc = "awaitFetch"
\* the sites of the viewport loadSites was last called for
LatestResult == IF lastBounds.mustZoom THEN << >> ELSE lastBounds.result

\* C14: once every site load in flight has settled, the displayed sites are
\* the result for the viewport requested last, whatever the order in which
\* the responses arrived.
C14_LatestViewportWins ==
    (lastBounds # NoBounds /\ ~LoadInFlight) => sites = LatestResult

====
